---- MODULE Spec2Model ----
(***************************************************************************)
(* Product catalog API (src/01_api/index.js): the image URL normalizer,    *)
(* the filter and pagination builder of GET /products, and the write path  *)
(* (POST /products, PUT /products/:id, DELETE /products/:id) over the      *)
(* products table.                                                         *)
(*                                                                         *)
(* JavaScript strings are sequences of one-character strings, so that      *)
(* trim, startsWith, template concatenation, LIKE matching and numeral     *)
(* parsing are computed, not assumed.  A JavaScript value is a record      *)
(* [t, s, n]: its type tag, its characters (strings) and its integer       *)
(* (numbers).                                                              *)
(***************************************************************************)
EXTENDS Integers, Sequences, FiniteSets, TLC

\* ------------------------------------------------------------ bounds
\* rows ever inserted in one run of the write path (AUTO_INCREMENT ids)
MaxId == 2
\* rows of the table the listing is run against
MaxRows == 5
\* requests in flight at once in the interleaved specification
MaxReqs == 2

\* ------------------------------------------------------------ JS values
Undefined == [t |-> "undefined", s |-> <<>>, n |-> 0]
Null == [t |-> "null", s |-> <<>>, n |-> 0]
NaN == [t |-> "NaN", s |-> <<>>, n |-> 0]
Infinity == [t |-> "Infinity", s |-> <<>>, n |-> 0]
Str(chars) == [t |-> "string", s |-> chars, n |-> 0]
Num(k) == [t |-> "number", s |-> <<>>, n |-> k]

\* JavaScript truthiness: undefined, null, NaN, "" and 0 are falsy
Truthy(v) ==
    CASE v.t = "string" -> v.s # <<>>
      [] v.t = "number" -> v.n # 0
      [] v.t = "Infinity" -> TRUE
      [] OTHER -> FALSE

\* String.prototype.startsWith
startsWith(str, prefix) ==
    /\ Len(str) >= Len(prefix)
    /\ SubSeq(str, 1, Len(prefix)) = prefix

IsSpace(c) == c \in {" ", "\t"}

RECURSIVE trimStart(_)
trimStart(str) ==
    IF str # <<>> /\ IsSpace(Head(str)) THEN trimStart(Tail(str)) ELSE str

RECURSIVE trimEnd(_)
trimEnd(str) ==
    IF str # <<>> /\ IsSpace(str[Len(str)])
    THEN trimEnd(SubSeq(str, 1, Len(str) - 1))
    ELSE str

\* String.prototype.trim
trim(str) == trimEnd(trimStart(str))

Digits == <<"0", "1", "2", "3", "4", "5", "6", "7", "8", "9">>
IsDigit(c) == \E d \in 1..10 : Digits[d] = c
DigitVal(c) == (CHOOSE d \in 1..10 : Digits[d] = c) - 1

\* the longest prefix of str made of decimal digits
RECURSIVE LeadingDigits(_)
LeadingDigits(str) ==
    IF str # <<>> /\ IsDigit(Head(str))
    THEN <<Head(str)>> \o LeadingDigits(Tail(str))
    ELSE <<>>

\* the value of a digit string, most significant digit first
RECURSIVE DigitsValue(_)
DigitsValue(ds) ==
    IF ds = <<>> THEN 0
    ELSE 10 * DigitsValue(SubSeq(ds, 1, Len(ds) - 1)) + DigitVal(ds[Len(ds)])

\* parseInt / parseFloat on the numerals of the model (unsigned integers):
\* leading white space is skipped, the leading digits are read, trailing
\* characters are ignored, and no digit at all gives NaN
parseInt(v) ==
    CASE v.t = "number" -> v
      [] v.t = "string" ->
            LET ds == LeadingDigits(trimStart(v.s))
            IN  IF ds = <<>> THEN NaN ELSE Num(DigitsValue(ds))
      [] OTHER -> NaN

parseFloat(v) == parseInt(v)

\* ToNumber, the coercion of the operators - * /: the empty (or blank) string
\* is 0, a string that is not a numeral throughout is NaN
ToNumber(v) ==
    CASE v.t = "number" -> v
      [] v.t = "string" ->
            LET b == trim(v.s)
            IN  IF b = <<>> THEN Num(0)
                ELSE IF LeadingDigits(b) = b THEN Num(DigitsValue(b))
                ELSE NaN
      [] v.t = "null" -> Num(0)
      [] OTHER -> v

\* a - b, a * b on coerced operands (finite or NaN in this model)
JsSub(a, b) ==
    LET x == ToNumber(a)
        y == ToNumber(b)
    IN  IF x.t = "number" /\ y.t = "number" THEN Num(x.n - y.n) ELSE NaN

JsMul(a, b) ==
    LET x == ToNumber(a)
        y == ToNumber(b)
    IN  IF x.t = "number" /\ y.t = "number" THEN Num(x.n * y.n) ELSE NaN

\* Math.ceil(a / b) for a >= 0, b >= 0: 0/0 is NaN, a/0 is Infinity
MathCeilDiv(a, b) ==
    LET x == ToNumber(a)
        y == ToNumber(b)
    IN  IF x.t # "number" \/ y.t # "number" THEN NaN
        ELSE IF y.n = 0 THEN (IF x.n = 0 THEN NaN ELSE Infinity)
        ELSE Num((x.n + y.n - 1) \div y.n)

\* ------------------------------------------------------------ getImageUrl
HttpPrefix == <<"h", "t", "t", "p", ":", "/", "/">>
HttpsPrefix == <<"h", "t", "t", "p", "s", ":", "/", "/">>
UploadsPrefix == <<"/", "u", "p", "l", "o", "a", "d", "s", "/">>
SchemeSep == <<":", "/", "/">>

\* request: [protocol, host], both character sequences
getImageUrl(imageUrl, request) ==
    IF ~Truthy(imageUrl) THEN Null
    ELSE IF startsWith(imageUrl.s, HttpPrefix) \/ startsWith(imageUrl.s, HttpsPrefix)
    THEN imageUrl
    ELSE IF startsWith(imageUrl.s, UploadsPrefix)
    THEN Str(request.protocol \o SchemeSep \o request.host \o imageUrl.s)
    ELSE imageUrl

\* ------------------------------------------------------------ state
VARIABLES
    store,      \* the products table: a set of rows, ids distinct
    nextId,     \* the table's AUTO_INCREMENT counter
    last,       \* the request handled last (sequential specifications)
    res,        \* the response to it
    queries,    \* the SQL text and bound parameters GET /products issued for it
    reqs        \* the requests in flight (interleaved specification)

vars == <<store, nextId, last, res, queries, reqs>>

NoRow == [id |-> 0, name |-> Null, slug |-> Null, description |-> Null,
          price |-> 0, category |-> Null, imageUrl |-> Null, createdAt |-> 0]

NoBody == [name |-> Undefined, slug |-> Undefined, description |-> Undefined,
           price |-> Undefined, category |-> Undefined, imageUrl |-> Undefined]

NoQuery == [search |-> Undefined, category |-> Undefined, minPrice |-> Undefined,
            maxPrice |-> Undefined, page |-> Undefined, limit |-> Undefined]

NoPagination == [total |-> 0, page |-> Null, limit |-> Null, totalPages |-> Null]

\* an HTTP request: req.body, req.file, req.params.id, req.query,
\* req.protocol and req.get('host')
Request(op, id, body, file, query, protocol, host) ==
    [op |-> op, id |-> id, body |-> body, file |-> file, query |-> query,
     protocol |-> protocol, host |-> host]

NoRequest == Request("none", 0, NoBody, Undefined, NoQuery, <<>>, <<>>)

\* res.status(status).json(...): an error body, a product body, or a listing
Response(status, error, product, data, pagination) ==
    [status |-> status, error |-> error, product |-> product, data |-> data,
     pagination |-> pagination]

NoResponse == Response(0, "", NoRow, <<>>, NoPagination)
ErrorResponse(status, error) == Response(status, error, NoRow, <<>>, NoPagination)
ProductResponse(status, row) == Response(status, "", row, <<>>, NoPagination)

\* ------------------------------------------------------------ storage layer
\* SELECT * FROM products WHERE id = ?
SelectById(rows, id) == {r \in rows : r.id = id}

\* the UNIQUE index on slug: another row already holds this slug
SlugTaken(rows, slug, exceptId) ==
    \E r \in rows : r.id # exceptId /\ r.slug = slug

\* INSERT INTO products (...) VALUES (...): the statement's error code, the
\* table afterwards and insertId.  The price column holds the number
\* parseFloat read; createdAt is the column's default, the current time
InsertRow(rows, id, body, finalImageUrl, createdAt) ==
    IF SlugTaken(rows, body.slug, 0)
    THEN [code |-> "ER_DUP_ENTRY", rows |-> rows, insertId |-> 0]
    ELSE [code |-> "",
          rows |-> rows \cup {[id |-> id, name |-> body.name, slug |-> body.slug,
                               description |-> IF Truthy(body.description)
                                               THEN body.description ELSE Null,
                               price |-> parseFloat(body.price).n,
                               category |-> body.category,
                               imageUrl |-> finalImageUrl,
                               createdAt |-> createdAt]},
          insertId |-> id]

\* UPDATE products SET ... WHERE id = ?: no row matched is no error
UpdateRow(rows, id, body, finalImageUrl) ==
    IF SelectById(rows, id) = {} THEN [code |-> "", rows |-> rows]
    ELSE IF SlugTaken(rows, body.slug, id) THEN [code |-> "ER_DUP_ENTRY", rows |-> rows]
    ELSE [code |-> "",
          rows |-> {IF r.id # id THEN r
                    ELSE [r EXCEPT !.name = body.name, !.slug = body.slug,
                                   !.description = IF Truthy(body.description)
                                                   THEN body.description ELSE Null,
                                   !.price = parseFloat(body.price).n,
                                   !.category = body.category,
                                   !.imageUrl = finalImageUrl] : r \in rows}]

\* DELETE FROM products WHERE id = ?
DeleteRow(rows, id) ==
    [affectedRows |-> Cardinality(SelectById(rows, id)),
     rows |-> rows \ SelectById(rows, id)]

\* ------------------------------------------------------------ write path
\* the validation with the category check left out
MissingRequired_NoCategory(body) ==
    ~Truthy(body.name) \/ ~Truthy(body.slug) \/ ~Truthy(body.price)

MissingRequired(body) ==
    ~Truthy(body.name) \/ ~Truthy(body.slug) \/ ~Truthy(body.price)
        \/ ~Truthy(body.category)

\* the resolution with the URL tried before the uploaded file
FinalImageUrl_UrlFirst(fallback, file, imageUrl) ==
    IF Truthy(imageUrl) /\ Truthy(Str(trim(imageUrl.s))) THEN Str(trim(imageUrl.s))
    ELSE IF Truthy(file) THEN Str(UploadsPrefix \o file.s)
    ELSE fallback

\* Priority: uploaded file > provided URL > fallback (null on create, the
\* existing reference on update)
FinalImageUrl(fallback, file, imageUrl) ==
    IF Truthy(file) THEN Str(UploadsPrefix \o file.s)
    ELSE IF Truthy(imageUrl) /\ Truthy(Str(trim(imageUrl.s))) THEN Str(trim(imageUrl.s))
    ELSE fallback

WithFullUrl(row, request) ==
    [row EXCEPT !.imageUrl = getImageUrl(row.imageUrl, request)]

\* a catch block that answers every failure with the generic error
CreateCatch_Generic(code) == ErrorResponse(500, "Failed to create product")

\* the catch block of POST /products
CreateCatch(code) ==
    IF code = "ER_DUP_ENTRY" THEN ErrorResponse(400, "Product slug already exists")
    ELSE ErrorResponse(500, "Failed to create product")

\* the catch block of PUT /products/:id
UpdateCatch(code) == ErrorResponse(500, "Failed to update product")

MissingFieldsError == ErrorResponse(400, "Missing required fields")

\* POST /products, run to completion: [rows, res]
CreateProduct(rows, id, request, createdAt) ==
    IF MissingRequired(request.body)
    THEN [rows |-> rows, res |-> MissingFieldsError]
    ELSE LET finalImageUrl == FinalImageUrl(Null, request.file, request.body.imageUrl)
             result == InsertRow(rows, id, request.body, finalImageUrl, createdAt)
             newProduct == SelectById(result.rows, result.insertId)
         IN  IF result.code # ""
             THEN [rows |-> rows, res |-> CreateCatch(result.code)]
             ELSE [rows |-> result.rows,
                   res |-> ProductResponse(201,
                              WithFullUrl(CHOOSE r \in newProduct : TRUE, request))]

\* PUT /products/:id, run to completion: [rows, res]
UpdateProduct(rows, request) ==
    LET existing == SelectById(rows, request.id)
    IN  IF existing = {}
        THEN [rows |-> rows, res |-> ErrorResponse(404, "Product not found")]
        ELSE LET finalImageUrl == FinalImageUrl((CHOOSE r \in existing : TRUE).imageUrl,
                                                request.file, request.body.imageUrl)
                 result == UpdateRow(rows, request.id, request.body, finalImageUrl)
                 updated == SelectById(result.rows, request.id)
             IN  IF result.code # ""
                 THEN [rows |-> rows, res |-> UpdateCatch(result.code)]
                 ELSE [rows |-> result.rows,
                       res |-> ProductResponse(200,
                                  WithFullUrl(CHOOSE r \in updated : TRUE, request))]

\* DELETE /products/:id: [rows, res]
DeleteProduct(rows, request) ==
    LET result == DeleteRow(rows, request.id)
    IN  IF result.affectedRows = 0
        THEN [rows |-> rows, res |-> ErrorResponse(404, "Product not found")]
        ELSE [rows |-> result.rows, res |-> Response(200, "Product deleted", NoRow, <<>>,
                                                     NoPagination)]

\* ------------------------------------------------------------ GET /products
\* page = 1, limit = 20 when the parameter is absent
DefaultPage == 1
DefaultLimit == 20

\* SQL text is the sequence of the fragments the handler concatenates
SelectHead == "SELECT * FROM products WHERE 1=1"
CountHead == "SELECT COUNT(*) as total FROM products WHERE 1=1"
SearchClause == " AND (name LIKE ? OR description LIKE ?)"
CategoryClause == " AND category = ?"
MinPriceClause == " AND price >= ?"
MaxPriceClause == " AND price <= ?"
OrderLimitTail == " ORDER BY createdAt DESC LIMIT ? OFFSET ?"

NoQueries == [query |-> <<>>, params |-> <<>>, countQuery |-> <<>>, countParams |-> <<>>]

Percent == <<"%">>
SearchTerm(search) == Str(Percent \o search.s \o Percent)

\* the offset taken as page * limit
ListOffset_PageTimesLimit(page, limit) == JsMul(page, limit)

\* (page - 1) * limit
ListOffset(page, limit) == JsMul(JsSub(page, Num(1)), limit)

\* query and params, as the handler builds them
DataQuery(q, page, limit) ==
    LET s == IF Truthy(q.search)
             THEN [sql |-> <<SearchClause>>,
                   params |-> <<SearchTerm(q.search), SearchTerm(q.search)>>]
             ELSE [sql |-> <<>>, params |-> <<>>]
        c == IF Truthy(q.category)
             THEN [sql |-> <<CategoryClause>>, params |-> <<q.category>>]
             ELSE [sql |-> <<>>, params |-> <<>>]
        lo == IF Truthy(q.minPrice)
              THEN [sql |-> <<MinPriceClause>>, params |-> <<parseFloat(q.minPrice)>>]
              ELSE [sql |-> <<>>, params |-> <<>>]
        hi == IF Truthy(q.maxPrice)
              THEN [sql |-> <<MaxPriceClause>>, params |-> <<parseFloat(q.maxPrice)>>]
              ELSE [sql |-> <<>>, params |-> <<>>]
    IN  [sql |-> <<SelectHead>> \o s.sql \o c.sql \o lo.sql \o hi.sql \o <<OrderLimitTail>>,
         params |-> s.params \o c.params \o lo.params \o hi.params
                        \o <<parseInt(limit), parseInt(ListOffset(page, limit))>>]

\* a count query that leaves the category predicate out
CountQuery_NoCategory(q) ==
    LET s == IF Truthy(q.search)
             THEN [sql |-> <<SearchClause>>,
                   params |-> <<SearchTerm(q.search), SearchTerm(q.search)>>]
             ELSE [sql |-> <<>>, params |-> <<>>]
        lo == IF Truthy(q.minPrice)
              THEN [sql |-> <<MinPriceClause>>, params |-> <<parseFloat(q.minPrice)>>]
              ELSE [sql |-> <<>>, params |-> <<>>]
        hi == IF Truthy(q.maxPrice)
              THEN [sql |-> <<MaxPriceClause>>, params |-> <<parseFloat(q.maxPrice)>>]
              ELSE [sql |-> <<>>, params |-> <<>>]
    IN  [sql |-> <<CountHead>> \o s.sql \o lo.sql \o hi.sql,
         params |-> s.params \o lo.params \o hi.params]

\* countQuery and countParams, as the handler builds them
CountQuery(q) ==
    LET s == IF Truthy(q.search)
             THEN [sql |-> <<SearchClause>>,
                   params |-> <<SearchTerm(q.search), SearchTerm(q.search)>>]
             ELSE [sql |-> <<>>, params |-> <<>>]
        c == IF Truthy(q.category)
             THEN [sql |-> <<CategoryClause>>, params |-> <<q.category>>]
             ELSE [sql |-> <<>>, params |-> <<>>]
        lo == IF Truthy(q.minPrice)
              THEN [sql |-> <<MinPriceClause>>, params |-> <<parseFloat(q.minPrice)>>]
              ELSE [sql |-> <<>>, params |-> <<>>]
        hi == IF Truthy(q.maxPrice)
              THEN [sql |-> <<MaxPriceClause>>, params |-> <<parseFloat(q.maxPrice)>>]
              ELSE [sql |-> <<>>, params |-> <<>>]
    IN  [sql |-> <<CountHead>> \o s.sql \o c.sql \o lo.sql \o hi.sql,
         params |-> s.params \o c.params \o lo.params \o hi.params]

\* str LIKE pattern: % is any run of characters, _ any one character
RECURSIVE Like(_, _)
Like(str, pattern) ==
    IF pattern = <<>> THEN str = <<>>
    ELSE IF Head(pattern) = "%"
    THEN Like(str, Tail(pattern)) \/ (str # <<>> /\ Like(Tail(str), pattern))
    ELSE /\ str # <<>>
         /\ Head(pattern) = "_" \/ Head(pattern) = Head(str)
         /\ Like(Tail(str), Tail(pattern))

\* the WHERE clause of a statement on one row: each fragment takes its
\* parameters from the front of params; a NULL description matches no LIKE
RECURSIVE Where(_, _, _)
Where(r, clauses, params) ==
    IF clauses = <<>> THEN TRUE
    ELSE LET c == Head(clauses)
         IN  CASE c = SearchClause ->
                    /\ \/ Like(r.name.s, params[1].s)
                       \/ r.description # Null /\ Like(r.description.s, params[2].s)
                    /\ Where(r, Tail(clauses), SubSeq(params, 3, Len(params)))
               [] c = CategoryClause ->
                    /\ r.category = params[1]
                    /\ Where(r, Tail(clauses), Tail(params))
               [] c = MinPriceClause ->
                    /\ r.price >= params[1].n
                    /\ Where(r, Tail(clauses), Tail(params))
               [] c = MaxPriceClause ->
                    /\ r.price <= params[1].n
                    /\ Where(r, Tail(clauses), Tail(params))
               [] OTHER -> Where(r, Tail(clauses), params)

\* the orders ORDER BY createdAt DESC may return a set of rows in: rows of
\* the same createdAt come in any order
RECURSIVE Orderings(_)
Orderings(S) ==
    IF S = {} THEN {<<>>}
    ELSE UNION {{<<r>> \o o : o \in Orderings(S \ {r})} :
                   r \in {x \in S : \A y \in S : y.createdAt <= x.createdAt}}

Min(a, b) == IF a <= b THEN a ELSE b

\* a bound parameter the server takes as a row count: a number >= 0
RowCount(v) == v.t = "number" /\ v.n >= 0

\* the data statement: its error code and the row sequences it may return
SelectRows(rows, sql, params) ==
    LET clauses == SubSeq(sql, 2, Len(sql) - 1)
        lim == params[Len(params) - 1]
        off == params[Len(params)]
        matching == {r \in rows : Where(r, clauses, params)}
    IN  IF ~RowCount(lim) \/ ~RowCount(off)
        THEN [code |-> "ER_PARSE_ERROR", results |-> {<<>>}]
        ELSE [code |-> "",
              results |-> {SubSeq(o, off.n + 1, Min(Len(o), off.n + lim.n)) :
                              o \in Orderings(matching)}]

\* the count statement: countResult[0].total
SelectCount(rows, sql, params) ==
    Cardinality({r \in rows : Where(r, Tail(sql), params)})

\* the 200 body of GET /products
ListResponse(rows, total, page, limit, request) ==
    Response(200, "", NoRow, [i \in 1..Len(rows) |-> WithFullUrl(rows[i], request)],
             [total |-> total, page |-> parseInt(page), limit |-> parseInt(limit),
              totalPages |-> MathCeilDiv(Num(total), limit)])

ListCatch == ErrorResponse(500, "Failed to fetch products")

\* ------------------------------------------------------------ inputs
Protocols == {<<"h", "t", "t", "p">>, <<"h", "t", "t", "p", "s">>}
Hosts == {<<"h">>}

\* body fields: absent, empty, numeric zero (a JSON body), or a value
NameInputs == {Undefined, Str(<<>>), Str(<<"m">>)}
SlugInputs == {Undefined, Str(<<"a">>), Str(<<"b">>)}
PriceInputs == {Undefined, Num(0), Str(<<"9">>)}
CategoryInputs == {Undefined, Str(<<"k">>)}
ImageUrlInputs ==
    {Undefined, Str(<<>>), Str(<<" ">>),
     Str(<<" ">> \o HttpPrefix \o <<"x", " ">>),
     Str(<<"a", ".", "p">>)}
FileInputs == {Undefined, Str(<<"f">>)}

\* every combination of the required fields; the image inputs vary where
\* the required fields are accepted
RequiredFields ==
    {[name |-> n, slug |-> s, price |-> p, category |-> c] :
        n \in NameInputs, s \in SlugInputs, p \in PriceInputs, c \in CategoryInputs}

Body(f, imageUrl) ==
    [name |-> f.name, slug |-> f.slug, description |-> Undefined, price |-> f.price,
     category |-> f.category, imageUrl |-> imageUrl]

CreateBodies ==
    {Body(f, Undefined) : f \in RequiredFields}
        \cup {Body(f, i) : f \in {g \in RequiredFields :
                                    Truthy(g.name) /\ Truthy(g.slug)
                                        /\ Truthy(g.price) /\ Truthy(g.category)},
                            i \in ImageUrlInputs}

\* PUT has no validation of its own: its bodies are the well-formed ones
UpdateBodies == {b \in CreateBodies : ~MissingRequired(b)}

\* the time of an insert: that of the newest row, or later
Max(S) == CHOOSE x \in S : \A y \in S : y <= x
Newest(rows) == IF rows = {} THEN 0 ELSE Max({r.createdAt : r \in rows})
Times(rows) == {Newest(rows), Newest(rows) + 1}

\* ------------------------------------------------------------ sequential
\* One request at a time: a handler runs to completion on a request drawn
\* from the inputs, and its request and response are kept until the
\* response has been sent.
NoLast == [req |-> NoRequest, pre |-> {}]
Idle == last = NoLast

Init ==
    /\ store = {}
    /\ nextId = 1
    /\ last = NoLast
    /\ res = NoResponse
    /\ queries = NoQueries
    /\ reqs = <<>>

Create ==
    /\ Idle
    /\ \E body \in CreateBodies, file \in FileInputs, protocol \in Protocols,
          host \in Hosts, createdAt \in Times(store) :
           LET request == Request("POST", 0, body, file, NoQuery, protocol, host)
               out == CreateProduct(store, nextId, request, createdAt)
           IN  /\ nextId <= MaxId \/ out.rows = store
               /\ store' = out.rows
               /\ nextId' = IF out.rows = store THEN nextId ELSE nextId + 1
               /\ last' = [req |-> request, pre |-> store]
               /\ res' = out.res
               /\ UNCHANGED <<queries, reqs>>

Update ==
    /\ Idle
    /\ \E id \in 1..MaxId, body \in UpdateBodies, file \in FileInputs,
          protocol \in Protocols, host \in Hosts :
           LET request == Request("PUT", id, body, file, NoQuery, protocol, host)
               out == UpdateProduct(store, request)
           IN  /\ store' = out.rows
               /\ last' = [req |-> request, pre |-> store]
               /\ res' = out.res
               /\ UNCHANGED <<nextId, queries, reqs>>

Delete ==
    /\ Idle
    /\ \E id \in 1..MaxId, protocol \in Protocols, host \in Hosts :
           LET request == Request("DELETE", id, NoBody, Undefined, NoQuery, protocol, host)
               out == DeleteProduct(store, request)
           IN  /\ store' = out.rows
               /\ last' = [req |-> request, pre |-> store]
               /\ res' = out.res
               /\ UNCHANGED <<nextId, queries, reqs>>

\* the response has been sent: the request's scope ends
Sent ==
    /\ ~Idle
    /\ last' = NoLast
    /\ res' = NoResponse
    /\ queries' = NoQueries
    /\ UNCHANGED <<store, nextId, reqs>>

Next == Create \/ Update \/ Delete \/ Sent

Spec == Init /\ [][Next]_vars

\* ------------------------------------------------------------ listing
\* GET /products against a table that does not change.  The tables are those
\* MaxRows inserts can leave: ids in insertion order, createdAt not
\* decreasing with the id, either all different or equal in pairs.
RowKinds ==
    {[name |-> Str(<<"m", "u", "g">>), description |-> Null,
      category |-> Str(<<"t">>), price |-> 7, imageUrl |-> Null],
     [name |-> Str(<<"p", "a", "n">>), description |-> Str(<<"c", "a", "p">>),
      category |-> Str(<<"k">>), price |-> 5,
      imageUrl |-> Str(UploadsPrefix \o <<"f">>)]}

Table(kinds, paired) ==
    {[id |-> i, name |-> kinds[i].name, slug |-> Str(<<Digits[i + 1]>>),
      description |-> kinds[i].description, price |-> kinds[i].price,
      category |-> kinds[i].category, imageUrl |-> kinds[i].imageUrl,
      createdAt |-> IF paired THEN (i + 1) \div 2 ELSE i] : i \in DOMAIN kinds}

ListTables ==
    UNION {{Table(kinds, paired) : kinds \in [1..n -> RowKinds], paired \in BOOLEAN} :
              n \in 0..MaxRows}

SearchInputs == {Undefined, Str(<<>>), Str(<<"u">>), Str(<<"c">>)}
CategoryFilterInputs == {Undefined, Str(<<"k">>)}
MinPriceInputs == {Undefined, Str(<<"5">>), Str(<<"6">>)}
MaxPriceInputs == {Undefined, Str(<<"5">>)}
PageInputs == {Undefined, Str(<<"0">>), Str(<<"1">>), Str(<<"2">>), Str(<<"3">>)}
LimitInputs == {Undefined, Str(<<"0">>), Str(<<"2">>)}

Queries ==
    {[search |-> s, category |-> c, minPrice |-> lo, maxPrice |-> hi, page |-> pg,
      limit |-> lm] :
        s \in SearchInputs, c \in CategoryFilterInputs, lo \in MinPriceInputs,
        hi \in MaxPriceInputs, pg \in PageInputs, lm \in LimitInputs}

InitList ==
    /\ store \in ListTables
    /\ nextId = Cardinality(store) + 1
    /\ last = NoLast
    /\ res = NoResponse
    /\ queries = NoQueries
    /\ reqs = <<>>

\* GET /products, run to completion
List ==
    /\ Idle
    /\ \E q \in Queries, host \in Hosts :
           LET request == Request("GET", 0, NoBody, Undefined, q,
                                  <<"h", "t", "t", "p">>, host)
               page == IF q.page = Undefined THEN Num(DefaultPage) ELSE q.page
               limit == IF q.limit = Undefined THEN Num(DefaultLimit) ELSE q.limit
               data == DataQuery(q, page, limit)
               count == CountQuery(q)
               selected == SelectRows(store, data.sql, data.params)
               total == SelectCount(store, count.sql, count.params)
           IN  /\ last' = [req |-> request, pre |-> store]
               /\ queries' = [query |-> data.sql, params |-> data.params,
                              countQuery |-> count.sql, countParams |-> count.params]
               /\ IF selected.code # ""
                  THEN res' = ListCatch
                  ELSE \E rows \in selected.results :
                          res' = ListResponse(rows, total, page, limit, request)
               /\ UNCHANGED <<store, nextId, reqs>>

NextList == List \/ Sent

SpecList == InitList /\ [][NextList]_vars

\* ------------------------------------------------------------ interleaved
\* Requests in flight together: a handler gives way at each await, so one
\* action is one statement on the pool and the code up to the next await.
\* A slot holds one request: its position, what its statements returned, and
\* its response once it has answered.
Slots == 1..MaxReqs

NoSlot == [pc |-> "idle", req |-> NoRequest, finalImageUrl |-> Null, insertId |-> 0,
           rows |-> <<>>, res |-> NoResponse]

ConcTables ==
    UNION {{Table(kinds, FALSE) : kinds \in [1..n -> RowKinds]} : n \in 1..2}

ConcImageUrlInputs == {Undefined, Str(<<" ">>), Str(HttpPrefix \o <<"y">>)}

\* an update that keeps the row's slug
ConcUpdateBody(id, imageUrl) ==
    [name |-> Str(<<"m">>), slug |-> Str(<<Digits[id + 1]>>), description |-> Undefined,
     price |-> Str(<<"9">>), category |-> Str(<<"k">>), imageUrl |-> imageUrl]

ConcCreateBodies ==
    {[name |-> Str(<<"m">>), slug |-> s, description |-> Undefined,
      price |-> Str(<<"9">>), category |-> Str(<<"k">>), imageUrl |-> Undefined] :
        s \in {Undefined, Str(<<"1">>), Str(<<"a">>)}}

ConcQueries == {NoQuery, [NoQuery EXCEPT !.category = Str(<<"k">>)]}

ConcRequest(op, id, body, query) ==
    Request(op, id, body, Undefined, query, <<"h", "t", "t", "p">>, <<"h">>)

Answer(slot, response) ==
    [reqs[slot] EXCEPT !.pc = "done", !.res = response]

InitConc ==
    /\ store \in ConcTables
    /\ nextId = Cardinality(store) + 1
    /\ last = NoLast
    /\ res = NoResponse
    /\ queries = NoQueries
    /\ reqs = [slot \in Slots |-> NoSlot]

\* PUT: SELECT the existing row, then resolve the image reference
PutSelect(slot) ==
    /\ reqs[slot].pc = "idle"
    /\ \E id \in 1..2, imageUrl \in ConcImageUrlInputs :
           LET request == ConcRequest("PUT", id, ConcUpdateBody(id, imageUrl), NoQuery)
               existing == SelectById(store, id)
           IN  reqs' = [reqs EXCEPT ![slot] =
                  IF existing = {}
                  THEN [NoSlot EXCEPT !.pc = "done", !.req = request,
                                      !.res = ErrorResponse(404, "Product not found")]
                  ELSE [NoSlot EXCEPT !.pc = "put_update", !.req = request,
                           !.finalImageUrl =
                               FinalImageUrl((CHOOSE r \in existing : TRUE).imageUrl,
                                             request.file, request.body.imageUrl)]]
    /\ UNCHANGED <<store, nextId, last, res, queries>>

\* PUT: the UPDATE statement
PutUpdate(slot) ==
    /\ reqs[slot].pc = "put_update"
    /\ LET result == UpdateRow(store, reqs[slot].req.id, reqs[slot].req.body,
                               reqs[slot].finalImageUrl)
       IN  /\ store' = result.rows
           /\ reqs' = [reqs EXCEPT ![slot] =
                  IF result.code # "" THEN Answer(slot, UpdateCatch(result.code))
                  ELSE [reqs[slot] EXCEPT !.pc = "put_reply"]]
    /\ UNCHANGED <<nextId, last, res, queries>>

\* PUT: SELECT the updated row and answer; updated[0] of no row throws
PutReply(slot) ==
    /\ reqs[slot].pc = "put_reply"
    /\ LET updated == SelectById(store, reqs[slot].req.id)
       IN  reqs' = [reqs EXCEPT ![slot] =
              IF updated = {} THEN Answer(slot, UpdateCatch("TypeError"))
              ELSE Answer(slot, ProductResponse(200,
                      WithFullUrl(CHOOSE r \in updated : TRUE, reqs[slot].req)))]
    /\ UNCHANGED <<store, nextId, last, res, queries>>

\* POST: validate, resolve the image reference, INSERT
PostInsert(slot) ==
    /\ reqs[slot].pc = "idle"
    /\ \E body \in ConcCreateBodies :
           LET request == ConcRequest("POST", 0, body, NoQuery)
               finalImageUrl == FinalImageUrl(Null, request.file, body.imageUrl)
               result == InsertRow(store, nextId, body, finalImageUrl,
                                   Newest(store) + 1)
           IN  IF MissingRequired(body)
               THEN /\ reqs' = [reqs EXCEPT ![slot] =
                           [NoSlot EXCEPT !.pc = "done", !.req = request,
                                          !.res = MissingFieldsError]]
                    /\ UNCHANGED <<store, nextId>>
               ELSE IF result.code # ""
               THEN /\ reqs' = [reqs EXCEPT ![slot] =
                           [NoSlot EXCEPT !.pc = "done", !.req = request,
                                          !.res = CreateCatch(result.code)]]
                    /\ UNCHANGED <<store, nextId>>
               ELSE /\ reqs' = [reqs EXCEPT ![slot] =
                           [NoSlot EXCEPT !.pc = "post_reply", !.req = request,
                                          !.insertId = result.insertId]]
                    /\ store' = result.rows
                    /\ nextId' = nextId + 1
    /\ UNCHANGED <<last, res, queries>>

\* POST: SELECT the new row and answer; newProduct[0] of no row throws
PostReply(slot) ==
    /\ reqs[slot].pc = "post_reply"
    /\ LET newProduct == SelectById(store, reqs[slot].insertId)
       IN  reqs' = [reqs EXCEPT ![slot] =
              IF newProduct = {} THEN Answer(slot, CreateCatch("TypeError"))
              ELSE Answer(slot, ProductResponse(201,
                      WithFullUrl(CHOOSE r \in newProduct : TRUE, reqs[slot].req)))]
    /\ UNCHANGED <<store, nextId, last, res, queries>>

\* DELETE: one statement, then the answer
DeleteOne(slot) ==
    /\ reqs[slot].pc = "idle"
    /\ \E id \in 1..2 :
           LET request == ConcRequest("DELETE", id, NoBody, NoQuery)
               out == DeleteProduct(store, request)
           IN  /\ store' = out.rows
               /\ reqs' = [reqs EXCEPT ![slot] =
                      [NoSlot EXCEPT !.pc = "done", !.req = request, !.res = out.res]]
    /\ UNCHANGED <<nextId, last, res, queries>>

\* GET /products: build both statements, run the data statement
ListData(slot) ==
    /\ reqs[slot].pc = "idle"
    /\ \E q \in ConcQueries :
           LET request == ConcRequest("GET", 0, NoBody, q)
               data == DataQuery(q, Num(DefaultPage), Num(DefaultLimit))
               selected == SelectRows(store, data.sql, data.params)
           IN  IF selected.code # ""
               THEN reqs' = [reqs EXCEPT ![slot] =
                       [NoSlot EXCEPT !.pc = "done", !.req = request, !.res = ListCatch]]
               ELSE \E rows \in selected.results :
                       reqs' = [reqs EXCEPT ![slot] =
                          [NoSlot EXCEPT !.pc = "list_count", !.req = request,
                                         !.rows = rows]]
    /\ UNCHANGED <<store, nextId, last, res, queries>>

\* GET /products: run the count statement and answer
ListCount(slot) ==
    /\ reqs[slot].pc = "list_count"
    /\ LET count == CountQuery(reqs[slot].req.query)
           total == SelectCount(store, count.sql, count.params)
       IN  reqs' = [reqs EXCEPT ![slot] =
              Answer(slot, ListResponse(reqs[slot].rows, total, Num(DefaultPage),
                                        Num(DefaultLimit), reqs[slot].req))]
    /\ UNCHANGED <<store, nextId, last, res, queries>>

NextConc ==
    \E slot \in Slots :
        \/ PutSelect(slot)
        \/ PutUpdate(slot)
        \/ PutReply(slot)
        \/ PostInsert(slot)
        \/ PostReply(slot)
        \/ DeleteOne(slot)
        \/ ListData(slot)
        \/ ListCount(slot)

SpecConc == InitConc /\ [][NextConc]_vars

\* ------------------------------------------------------------ write-path claims
Handled(op) == last.req.op = op
RequiredOf(body) == {body.name, body.slug, body.price, body.category}
MissingFieldsResponse == ErrorResponse(400, "Missing required fields")
DuplicateSlugResponse == ErrorResponse(400, "Product slug already exists")

\* a field value the validation takes as given: a non-empty string or a
\* non-zero number
Given(v) == (v.t = "string" /\ Len(v.s) > 0) \/ (v.t = "number" /\ v.n # 0)

\* C1 as stated: a POST with one of name, slug, price, category absent is
\* answered 400 'Missing required fields' and inserts nothing; a POST with all
\* four present is never answered with that error
C1_AbsentOnly ==
    Handled("POST") =>
        IF Undefined \in RequiredOf(last.req.body)
        THEN res = MissingFieldsResponse /\ store = last.pre
        ELSE res # MissingFieldsResponse

\* C1 as amended: a POST with one of the four absent, empty or zero is
\* answered 400 'Missing required fields' and inserts nothing; a POST with all
\* four given (non-empty strings, non-zero numbers) is never answered with it
C1_MissingRequiredFields ==
    Handled("POST") =>
        IF \E v \in RequiredOf(last.req.body) : ~Given(v)
        THEN res = MissingFieldsResponse /\ store = last.pre
        ELSE res # MissingFieldsResponse

C1_Witness ==
    /\ Handled("POST")
    /\ last.pre # {}
    /\ last.req.body.category = Undefined
    /\ Given(last.req.body.name) /\ Given(last.req.body.slug) /\ Given(last.req.body.price)
    /\ res = MissingFieldsResponse

C3_DuplicateSlugOnUpdate ==
    (/\ Handled("PUT")
     /\ \E r \in last.pre : r.id = last.req.id
     /\ \E r \in last.pre : r.id # last.req.id /\ r.slug = last.req.body.slug)
        => /\ store = last.pre
           /\ res.status = 400
           /\ res.error = DuplicateSlugResponse.error

\* t is u without its leading and trailing white space
IsTrimOf(t, u) ==
    /\ t = <<>> \/ (~IsSpace(t[1]) /\ ~IsSpace(t[Len(t)]))
    /\ \E i \in 0..Len(u) :
          /\ i + Len(t) <= Len(u)
          /\ SubSeq(u, i + 1, i + Len(t)) = t
          /\ \A k \in 1..Len(u) : (k <= i \/ k > i + Len(t)) => IsSpace(u[k])

\* the claim's image reference for a write: before is the reference stored
\* before an update, null for a create
ClaimedImage(before, request, stored) ==
    IF request.file # Undefined
    THEN stored = Str(UploadsPrefix \o request.file.s)
    ELSE IF /\ request.body.imageUrl.t = "string"
            /\ \E k \in 1..Len(request.body.imageUrl.s) :
                  ~IsSpace(request.body.imageUrl.s[k])
    THEN stored.t = "string" /\ IsTrimOf(stored.s, request.body.imageUrl.s)
    ELSE stored = before

\* C4: after a create (201) or an update (200) handled on its own, the stored
\* image reference is '/uploads/<filename>' if a file was uploaded; else the
\* trimmed URL if one was supplied and is not blank; else the reference
\* stored before (update) or null (create)
C4_ImageResolution ==
    /\ (Handled("POST") /\ res.status = 201) =>
          \E r \in store :
              /\ r.id = res.product.id
              /\ r \notin last.pre
              /\ ClaimedImage(Null, last.req, r.imageUrl)
    /\ (Handled("PUT") /\ res.status = 200) =>
          \E r \in store, old \in last.pre :
              /\ r.id = last.req.id
              /\ old.id = last.req.id
              /\ ClaimedImage(old.imageUrl, last.req, r.imageUrl)

\* an update with a blank URL and no file keeps a stored upload path
C4_Witness ==
    /\ Handled("PUT")
    /\ res.status = 200
    /\ last.req.file = Undefined
    /\ last.req.body.imageUrl = Str(<<" ">>)
    /\ \E r \in store :
          /\ r.id = last.req.id
          /\ r.imageUrl = Str(UploadsPrefix \o <<"f">>)

IsAbsoluteUrl(v) ==
    v.t = "string" /\ (startsWith(v.s, HttpPrefix) \/ startsWith(v.s, HttpsPrefix))

\* C8 as stated, on the product a create or an update answers with: the
\* image URL is null when no reference is stored, the stored reference when
\* that begins with http:// or https://, scheme://host + path when it is an
\* upload path, and so never a non-null value that is not an absolute URL
C8_NormalizedImageUrl ==
    ((Handled("POST") /\ res.status = 201) \/ (Handled("PUT") /\ res.status = 200)) =>
        \E r \in store :
            /\ r.id = res.product.id
            /\ r.imageUrl = Null => res.product.imageUrl = Null
            /\ IsAbsoluteUrl(r.imageUrl) => res.product.imageUrl = r.imageUrl
            /\ (r.imageUrl.t = "string" /\ startsWith(r.imageUrl.s, UploadsPrefix)) =>
                  res.product.imageUrl =
                      Str(last.req.protocol \o SchemeSep \o last.req.host \o r.imageUrl.s)
            /\ res.product.imageUrl # Null => IsAbsoluteUrl(res.product.imageUrl)

\* ------------------------------------------------------------ listing claims
\* sub occurs in str
Contains(str, sub) ==
    \E i \in 0..(Len(str) - Len(sub)) : SubSeq(str, i + 1, i + Len(sub)) = sub

Supplied(v) == v.t = "string" /\ Len(v.s) > 0

\* the number a numeral of the requests stands for
NumeralValue(v) ==
    CASE v = Str(<<"0">>) -> 0
      [] v = Str(<<"1">>) -> 1
      [] v = Str(<<"2">>) -> 2
      [] v = Str(<<"3">>) -> 3
      [] v = Str(<<"5">>) -> 5
      [] v = Str(<<"6">>) -> 6

\* the row matches every filter the query supplies
MatchesFilters(r, q) ==
    /\ Supplied(q.search) =>
          \/ Contains(r.name.s, q.search.s)
          \/ r.description # Null /\ Contains(r.description.s, q.search.s)
    /\ Supplied(q.category) => r.category = q.category
    /\ Supplied(q.minPrice) => r.price >= NumeralValue(q.minPrice)
    /\ Supplied(q.maxPrice) => r.price <= NumeralValue(q.maxPrice)

Listed == Handled("GET") /\ res.status = 200
PageOf(q) == IF q.page = Undefined THEN 1 ELSE NumeralValue(q.page)
LimitOf(q) == IF q.limit = Undefined THEN 20 ELSE NumeralValue(q.limit)

\* C5 as stated: in every 200 response of GET /products, totalPages is
\* ceil(total / limit) for the limit in use (20 when absent), and it is 0
\* whenever total is 0
C5_TotalPages ==
    Listed =>
        LET total == res.pagination.total
            pages == res.pagination.totalPages
            limit == LimitOf(last.req.query)
        IN  /\ limit > 0 =>
                  /\ pages.t = "number"
                  /\ pages.n * limit >= total
                  /\ (pages.n - 1) * limit < total
            /\ total = 0 => pages = Num(0)

\* C6: the offset bound is (N-1)*L, 0 for page 1, and the data are the
\* matching products at positions (N-1)*L+1 .. N*L of an arrangement of all
\* matching products by createdAt descending (fewer or none when they run out)
C6_PageSlice ==
    Listed =>
        LET q == last.req.query
            N == PageOf(q)
            L == LimitOf(q)
            offset == (N - 1) * L
            matching == {r \in store : MatchesFilters(r, q)}
            shown == {r \in matching : \E i \in 1..Len(res.data) : res.data[i].id = r.id}
            hidden == matching \ shown
        IN  /\ queries.params[Len(queries.params)] = Num(offset)
            /\ N = 1 => queries.params[Len(queries.params)] = Num(0)
            /\ \A i \in 1..Len(res.data) :
                  \E r \in matching : res.data[i] = WithFullUrl(r, last.req)
            /\ Cardinality(shown) = Len(res.data)
            /\ Len(res.data) =
                  IF Cardinality(matching) <= offset THEN 0
                  ELSE Min(L, Cardinality(matching) - offset)
            /\ \A i, j \in 1..Len(res.data) :
                  i < j => res.data[i].createdAt >= res.data[j].createdAt
            /\ Len(res.data) > 0 =>
                  \E before \in SUBSET hidden :
                      /\ Cardinality(before) = offset
                      /\ \A r \in before : r.createdAt >= res.data[1].createdAt
                      /\ \A r \in hidden \ before :
                            r.createdAt <= res.data[Len(res.data)].createdAt

\* page=2, limit=2 over 5 kitchen products created at 5 different times:
\* rows 3-4 (ids 3, 2) and totalPages = 3
C6_Witness ==
    /\ Listed
    /\ last.req.query = [NoQuery EXCEPT !.category = Str(<<"k">>),
                                         !.page = Str(<<"2">>), !.limit = Str(<<"2">>)]
    /\ Cardinality(store) = 5
    /\ \A r \in store : r.category = Str(<<"k">>) /\ r.createdAt = r.id
    /\ Len(res.data) = 2
    /\ res.data[1].id = 3 /\ res.data[2].id = 2
    /\ res.pagination.totalPages = Num(3)

ClauseOf(q) ==
    [search |-> SearchClause, category |-> CategoryClause,
     minPrice |-> MinPriceClause, maxPrice |-> MaxPriceClause]

\* C7: the data query and the count query carry the same predicates and the
\* same parameters in the same order, one predicate per supplied filter and
\* none for an absent one; total is the number of matching products, and with
\* page 1 and limit >= total the data hold total rows
C7_SamePredicates ==
    Handled("GET") =>
        LET q == last.req.query
            where == SubSeq(queries.query, 2, Len(queries.query) - 1)
            countWhere == Tail(queries.countQuery)
        IN  /\ where = countWhere
            /\ SubSeq(queries.params, 1, Len(queries.params) - 2) = queries.countParams
            /\ \A f \in {"search", "category", "minPrice", "maxPrice"} :
                  /\ q[f] = Undefined =>
                        \A i \in 1..Len(countWhere) : countWhere[i] # ClauseOf(q)[f]
                  /\ Supplied(q[f]) =>
                        \E i \in 1..Len(countWhere) : countWhere[i] = ClauseOf(q)[f]
            /\ res.status = 200 =>
                  /\ res.pagination.total =
                        Cardinality({r \in store : MatchesFilters(r, q)})
                  /\ (PageOf(q) = 1 /\ LimitOf(q) >= res.pagination.total) =>
                        Len(res.data) = res.pagination.total

\* all four filters supplied, two of three rows match, one page holds them
C7_Witness ==
    /\ Listed
    /\ \A f \in {"search", "category", "minPrice", "maxPrice"} :
          Supplied(last.req.query[f])
    /\ last.req.query.limit = Str(<<"2">>)
    /\ Cardinality(store) = 3
    /\ res.pagination.total = 2
    /\ Len(res.data) = 2

\* ------------------------------------------------------------ interleaving claims
SuppliesNoImage(request) ==
    /\ request.file = Undefined
    /\ request.body.imageUrl.t = "string" =>
          \A k \in 1..Len(request.body.imageUrl.s) : IsSpace(request.body.imageUrl.s[k])

StoredImage(rows, id) == {r.imageUrl : r \in SelectById(rows, id)}

\* C9 as stated: the UPDATE of a PUT that supplies neither a file nor a
\* non-blank URL never changes the image reference stored for its product,
\* whatever other requests did since the PUT read the row
C9_NoStaleImage ==
    [][\A slot \in Slots :
          (/\ reqs[slot].pc = "put_update"
           /\ reqs'[slot].pc # "put_update"
           /\ SuppliesNoImage(reqs[slot].req))
              => StoredImage(store', reqs[slot].req.id)
                    = StoredImage(store, reqs[slot].req.id)]_vars

\* C10 as stated: a 200 listing with page 1 and limit >= total holds exactly
\* total rows, whatever was inserted or deleted while it was handled
C10_OneStoreState ==
    \A slot \in Slots :
        (/\ reqs[slot].pc = "done"
         /\ reqs[slot].req.op = "GET"
         /\ reqs[slot].res.status = 200
         /\ reqs[slot].res.pagination.limit.n >= reqs[slot].res.pagination.total)
            => Len(reqs[slot].res.data) = reqs[slot].res.pagination.total

====
